---- MODULE Spec2Model ----
(***************************************************************************)
(* Model of the 3-qubit bit-flip (repetition code) demo, src/main.py.      *)
(*                                                                         *)
(* Spec      : run_demo's sweep (build circuit, execute on the backend,    *)
(*             store the counts, plot, report), with the arguments of     *)
(*             make_circuit_with_error drawn from small sets.              *)
(* UnitSpec  : the pure pieces on their own: the gates of encode_bitflip   *)
(*             followed by those of decode_bitflip on every basis state,   *)
(*             and majority_from_key on every key up to MaxKeyLen.         *)
(*                                                                         *)
(* Qubit i of the register is element i+1 of a tuple.  The backend is      *)
(* modelled by the set of basis states a measurement can return (the       *)
(* support of the state): X and CX permute basis states, and H is only     *)
(* ever applied to qubit 0 of |000>, where it yields both values of that   *)
(* qubit.                                                                  *)
(***************************************************************************)
EXTENDS Integers, Sequences, FiniteSets, TLC

VARIABLES states, error_on, shots,      \* arguments of the sweep
          idx, pc, error,               \* loop index, position, raised exception
          circ,                         \* circuit returned by make_circuit_with_error
          qstate, simPos,               \* backend: reachable basis states, gates applied
          calls,                        \* labels submitted to execute(), in order
          histograms, plotted, printed, \* run_demo's results and outputs
          rt_in, rt_q, rt_pos,          \* UnitSpec: encode/decode round trip
          key, maj, voteErr, votePc     \* UnitSpec: majority_from_key

vars == <<states, error_on, shots, idx, pc, error, circ, qstate, simPos, calls,
          histograms, plotted, printed, rt_in, rt_q, rt_pos, key, maj, voteErr, votePc>>

demoVars == <<states, error_on, shots, idx, pc, error, circ, qstate, simPos, calls,
              histograms, plotted, printed>>
rtVars   == <<rt_in, rt_q, rt_pos>>
voteVars == <<key, maj, voteErr, votePc>>

-----------------------------------------------------------------------------
(* Bounds *)
MaxStates   == 3    \* longest list of logical states swept
MaxErrorOn  == 5    \* error_on ranges over 1-MaxErrorOn .. MaxErrorOn
MaxShots    == 2    \* shots ranges over 1..MaxShots
MaxKeyLen   == 5    \* longest key handed to majority_from_key

(* Program constants *)
NumQubits     == 3
VoteThreshold == 2

Labels      == {"zero", "one", "plus", "minus"}
ValidLabels == {"zero", "one", "plus"}
Bits        == {0, 1}
Chars       == {"0", "1"}

-----------------------------------------------------------------------------
(* Gates and circuits *)

X(q)     == [op |-> "x",  qs |-> <<q>>]
H(q)     == [op |-> "h",  qs |-> <<q>>]
CX(c, t) == [op |-> "cx", qs |-> <<c, t>>]
Measure(q, c) == [op |-> "measure", qs |-> <<q, c>>]

Tag(gates, st) == [i \in 1..Len(gates) |-> [op |-> gates[i].op, qs |-> gates[i].qs, stage |-> st]]

Ok(gates)  == [err |-> "none", gates |-> gates]
Raise(exc) == [err |-> exc, gates |-> <<>>]

encode_bitflip_bug == <<CX(0, 1)>>
encode_bitflip == <<CX(0, 1), CX(0, 2)>>

decode_bitflip_bug == <<CX(0, 2), CX(1, 2)>>
decode_bitflip == <<CX(0, 2), CX(0, 1)>>

prepare_logical_bug(state_prep) ==
    IF state_prep = "one" THEN Ok(<<X(0)>>)
    ELSE IF state_prep = "plus" THEN Ok(<<H(0)>>)
    ELSE Ok(<<>>)
prepare_logical(state_prep) ==
    IF state_prep = "zero" THEN Ok(<<>>)
    ELSE IF state_prep = "one" THEN Ok(<<X(0)>>)
    ELSE IF state_prep = "plus" THEN Ok(<<H(0)>>)
    ELSE Raise("ValueError")

\* qc.x(error_on): the circuit library resolves an integer qubit specifier by
\* indexing the list of qubits, so -NumQubits..-1 count from the end and
\* anything else raises CircuitError.
inject_error(error_index) ==
    IF error_index >= 0 /\ error_index < NumQubits THEN Ok(<<X(error_index)>>)
    ELSE IF error_index < 0 /\ error_index >= 0 - NumQubits THEN Ok(<<X(error_index + NumQubits)>>)
    ELSE Raise("CircuitError")

measure_all == <<Measure(0, 0), Measure(1, 1), Measure(2, 2)>>

make_circuit_with_error_bug(state_prep, error_index) ==
    LET p == prepare_logical(state_prep)
        e == inject_error(error_index)
    IN  IF p.err # "none" THEN Raise(p.err)
        ELSE IF e.err # "none" THEN Raise(e.err)
        ELSE Ok(Tag(p.gates, "prep") \o Tag(e.gates, "error")
                \o Tag(encode_bitflip, "encode")
                \o Tag(decode_bitflip, "decode") \o Tag(measure_all, "measure"))
make_circuit_with_error(state_prep, error_index) ==
    LET p == prepare_logical(state_prep)
        e == inject_error(error_index)
    IN  IF p.err # "none" THEN Raise(p.err)
        ELSE IF e.err # "none" THEN Raise(e.err)
        ELSE Ok(Tag(p.gates, "prep") \o Tag(encode_bitflip, "encode")
                \o Tag(e.gates, "error")
                \o Tag(decode_bitflip, "decode") \o Tag(measure_all, "measure"))

-----------------------------------------------------------------------------
(* Backend: gate semantics on basis states *)

Flip(b) == 1 - b

\* one gate on the qubit values q (a tuple of NumQubits bits)
ApplyToQubits(g, q) ==
    IF g.op = "x" THEN [q EXCEPT ![g.qs[1] + 1] = Flip(@)]
    ELSE IF g.op = "cx" THEN [q EXCEPT ![g.qs[2] + 1] = (@ + q[g.qs[1] + 1]) % 2]
    ELSE q

\* one gate on a branch [q |-> qubits, c |-> classical bits]; h yields two branches
ApplyGate(g, br) ==
    IF g.op = "h" THEN {[br EXCEPT !.q[g.qs[1] + 1] = v] : v \in Bits}
    ELSE IF g.op = "measure" THEN {[br EXCEPT !.c[g.qs[2] + 1] = br.q[g.qs[1] + 1]]}
    ELSE {[br EXCEPT !.q = ApplyToQubits(g, br.q)]}

ApplyGateAll(g, Q) == UNION {ApplyGate(g, br) : br \in Q}

Zeros == [i \in 1..NumQubits |-> 0]
GroundState == {[q |-> Zeros, c |-> Zeros]}

Chr(b) == IF b = 1 THEN "1" ELSE "0"
\* get_counts() key: classical bit 0 is the rightmost character
KeyOf(br) == [i \in 1..NumQubits |-> Chr(br.c[NumQubits + 1 - i])]

RECURSIVE SumCounts(_)
SumCounts(f) ==
    IF DOMAIN f = {} THEN 0
    ELSE LET k == CHOOSE x \in DOMAIN f : TRUE
         IN  f[k] + SumCounts([x \in DOMAIN f \ {k} |-> f[x]])

\* the distributions the backend can return: only sampled keys appear
PossibleCounts(Q, n) ==
    LET K == {KeyOf(br) : br \in Q}
    IN  UNION {{f \in [D -> 1..n] : SumCounts(f) = n} : D \in SUBSET K \ {{}}}

-----------------------------------------------------------------------------
(* majority_from_key *)

int(ch) == IF ch = "1" THEN 1 ELSE 0
Reverse(s) == [i \in 1..Len(s) |-> s[Len(s) + 1 - i]]
KeyBits(k) == [i \in 1..Len(k) |-> int(Reverse(k)[i])]

RECURSIVE SumSeq(_)
SumSeq(s) == IF s = <<>> THEN 0 ELSE Head(s) + SumSeq(Tail(s))

majority_from_key_bug(k) == IF SumSeq(KeyBits(k)) > VoteThreshold THEN 1 ELSE 0
majority_from_key(k) == IF SumSeq(KeyBits(k)) >= VoteThreshold THEN 1 ELSE 0

-----------------------------------------------------------------------------
(* run_demo *)

\* the lists run_demo may sweep: line 76's own list is one of them
StatesChoices ==
    UNION {{s \in [1..n -> Labels] : \A i, j \in 1..n : i # j => s[i] # s[j]} : n \in 1..MaxStates}
ErrorOnChoices == (1 - MaxErrorOn)..MaxErrorOn

NoCircuit == <<>>
cur == states[idx]

Init ==
    /\ states \in StatesChoices
    /\ error_on \in ErrorOnChoices
    /\ shots \in 1..MaxShots
    /\ idx = 1
    /\ pc = "build"
    /\ error = "none"
    /\ circ = NoCircuit
    /\ qstate = {}
    /\ simPos = 0
    /\ calls = <<>>
    /\ histograms = <<>>
    /\ plotted = FALSE
    /\ printed = <<>>
    /\ rt_in = Zeros /\ rt_q = Zeros /\ rt_pos = 0
    /\ key = <<>> /\ maj = -1 /\ voteErr = "none" /\ votePc = "idle"

\* line 80: circ = make_circuit_with_error(state_prep=s, error_on=...)
Build ==
    /\ pc = "build"
    /\ LET r == make_circuit_with_error(cur, error_on)
       IN  IF r.err = "none"
           THEN /\ circ' = r.gates
                /\ pc' = "execute"
                /\ error' = error
           ELSE /\ circ' = NoCircuit
                /\ pc' = "raised"
                /\ error' = r.err
    /\ UNCHANGED <<states, error_on, shots, idx, qstate, simPos, calls,
                   histograms, plotted, printed, rtVars, voteVars>>

\* line 81: job = execute(circ, backend, shots)
Execute ==
    /\ pc = "execute"
    /\ calls' = Append(calls, cur)
    /\ qstate' = GroundState
    /\ simPos' = 0
    /\ pc' = "running"
    /\ UNCHANGED <<states, error_on, shots, idx, error, circ,
                   histograms, plotted, printed, rtVars, voteVars>>

\* the backend applies the next gate of the submitted circuit
BackendStep ==
    /\ pc = "running"
    /\ simPos < Len(circ)
    /\ qstate' = ApplyGateAll(circ[simPos + 1], qstate)
    /\ simPos' = simPos + 1
    /\ UNCHANGED <<states, error_on, shots, idx, pc, error, circ, calls,
                   histograms, plotted, printed, rtVars, voteVars>>

\* line 82: job.result() raises; nothing in run_demo catches it
BackendFail_bug ==
    /\ pc = "running"
    /\ error' = "BackendFailure"
    /\ IF idx < Len(states)
       THEN idx' = idx + 1 /\ pc' = "build"
       ELSE idx' = idx /\ pc' = "plot"
    /\ UNCHANGED <<states, error_on, shots, circ, qstate, simPos, calls,
                   histograms, plotted, printed, rtVars, voteVars>>
BackendFail ==
    /\ pc = "running"
    /\ error' = "BackendFailure"
    /\ pc' = "raised"
    /\ UNCHANGED <<states, error_on, shots, idx, circ, qstate, simPos, calls,
                   histograms, plotted, printed, rtVars, voteVars>>

\* lines 82-85: result.get_counts(); histograms[s] = counts; next s
StoreCounts ==
    /\ pc = "running"
    /\ simPos = Len(circ)
    /\ \E counts \in PossibleCounts(qstate, shots) :
          histograms' = (cur :> counts) @@ histograms
    /\ IF idx < Len(states)
       THEN idx' = idx + 1 /\ pc' = "build"
       ELSE idx' = idx /\ pc' = "plot"
    /\ UNCHANGED <<states, error_on, shots, error, circ, qstate, simPos, calls,
                   plotted, printed, rtVars, voteVars>>

\* lines 88-93
Plot ==
    /\ pc = "plot"
    /\ plotted' = TRUE
    /\ pc' = "report"
    /\ UNCHANGED <<states, error_on, shots, idx, error, circ, qstate, simPos, calls,
                   histograms, printed, rtVars, voteVars>>

\* lines 96-113: counts_plus = histograms['plus'] (KeyError when absent);
\* the loop over counts_plus is a no-op; the raw counts are printed
Report ==
    /\ pc = "report"
    /\ IF "plus" \in DOMAIN histograms
       THEN /\ printed' = <<histograms["plus"]>>
            /\ pc' = "done"
            /\ error' = error
       ELSE /\ printed' = printed
            /\ pc' = "raised"
            /\ error' = "KeyError"
    /\ UNCHANGED <<states, error_on, shots, idx, circ, qstate, simPos, calls,
                   histograms, plotted, rtVars, voteVars>>

Next == Build \/ Execute \/ BackendStep \/ BackendFail \/ StoreCounts \/ Plot \/ Report

Spec == Init /\ [][Next]_vars

-----------------------------------------------------------------------------
(* UnitSpec: the pure functions on enumerated inputs *)

RoundTripGates == encode_bitflip \o decode_bitflip

KeysUpTo(n) == UNION {[1..m -> Chars] : m \in 0..n}

UnitInit ==
    /\ states = <<"zero", "one", "plus">>
    /\ error_on = 1
    /\ shots = 1
    /\ idx = 1
    /\ pc = "idle"
    /\ error = "none"
    /\ circ = NoCircuit
    /\ qstate = {}
    /\ simPos = 0
    /\ calls = <<>>
    /\ histograms = <<>>
    /\ plotted = FALSE
    /\ printed = <<>>
    /\ rt_in \in [1..NumQubits -> Bits]
    /\ rt_q = rt_in
    /\ rt_pos = 0
    /\ key \in KeysUpTo(MaxKeyLen)
    /\ maj = -1
    /\ voteErr = "none"
    /\ votePc = "call"

\* the next gate of encode_bitflip ; decode_bitflip, no fault in between
RoundTripStep ==
    /\ rt_pos < Len(RoundTripGates)
    /\ rt_q' = ApplyToQubits(RoundTripGates[rt_pos + 1], rt_q)
    /\ rt_pos' = rt_pos + 1
    /\ UNCHANGED <<rt_in, demoVars, voteVars>>

\* lines 98-101: the function has no failing path
Vote ==
    /\ votePc = "call"
    /\ maj' = majority_from_key(key)
    /\ votePc' = "returned"
    /\ UNCHANGED <<key, voteErr, demoVars, rtVars>>

UnitNext == RoundTripStep \/ Vote

UnitSpec == UnitInit /\ [][UnitNext]_vars

-----------------------------------------------------------------------------
(* Properties *)

LogicalBit(s) == IF s = "one" THEN 1 ELSE 0
InRange(k) == k \in 0..(NumQubits - 1)
Ones(k) == Cardinality({i \in 1..Len(k) : k[i] = "1"})
GateOf(g) == [op |-> g.op, qs |-> g.qs]
\* the backend has just applied the last gate of stage st of the current circuit
StageDone(st) ==
    /\ pc = "running"
    /\ simPos >= 1
    /\ circ[simPos].stage = st
    /\ (simPos = Len(circ) \/ circ[simPos + 1].stage # st)
Qubits == {br.q : br \in qstate}
\* value of physical qubit i read off a key as line 99 does
KeyQubit(k, i) == KeyBits(k)[i + 1]

\* C1: for state_prep in {zero, one} and error_on in {0,1,2}, every measured
\* outcome of the trial has majority vote equal to the prepared logical bit.
C1_SingleFaultCorrected ==
    \A s \in {"zero", "one"} :
        (InRange(error_on) /\ s \in DOMAIN histograms)
            => \A k \in DOMAIN histograms[s] : majority_from_key(k) = LogicalBit(s)

\* C2: on each of the 8 basis states, the gates of encode_bitflip followed by
\* those of decode_bitflip leave all three qubits as they started.
C2_RoundTripIdentity ==
    rt_pos = Len(RoundTripGates) => rt_q = rt_in

C2_Witness ==
    /\ rt_pos = Len(RoundTripGates)
    /\ rt_in = <<1, 0, 1>>
    /\ rt_q = rt_in

\* C3 (as claimed): for state_prep = one, error_on = 1 the qubits are 111 after
\* encode, 101 after the injected X, and 111 again after decode.
C3_TraceAsClaimed ==
    (pc = "running" /\ cur = "one" /\ error_on = 1) =>
        /\ StageDone("encode") => Qubits = {<<1, 1, 1>>}
        /\ StageDone("error")  => Qubits = {<<1, 0, 1>>}
        /\ StageDone("decode") => Qubits = {<<1, 1, 1>>}

\* C3 (amended): for state_prep = one, error_on = 1 the qubits are 111 after
\* encode, 101 after the injected X, and after decode qubit 0 = 1, qubit 1 = 1,
\* qubit 2 = 0; every shot measures that one outcome (key "011").
C3_TraceAmended ==
    /\ (pc = "running" /\ cur = "one" /\ error_on = 1) =>
          /\ StageDone("encode") => Qubits = {<<1, 1, 1>>}
          /\ StageDone("error")  => Qubits = {<<1, 0, 1>>}
          /\ StageDone("decode") => Qubits = {<<1, 1, 0>>}
    /\ (error_on = 1 /\ "one" \in DOMAIN histograms) =>
          histograms["one"] = (<<"0", "1", "1">> :> shots)

C3_Witness ==
    /\ error_on = 1
    /\ cur = "one"
    /\ StageDone("decode")
    /\ Qubits = {<<1, 1, 0>>}

\* C4 (as claimed): for every key of odd length n, majority_from_key returns 1
\* exactly when the number of 1-bits is strictly greater than n/2, else 0.
C4_ThresholdAsClaimed ==
    (votePc = "returned" /\ Len(key) % 2 = 1) =>
        /\ maj \in Bits
        /\ maj = 1 <=> 2 * Ones(key) > Len(key)

\* C4 (amended): majority_from_key returns 1 exactly when the key holds at
\* least two 1-bits, else 0; this is the strict-majority vote for keys of
\* length 3 (not for length 1 or 5).
C4_ThresholdAmended ==
    votePc = "returned" =>
        /\ maj \in Bits
        /\ maj = 1 <=> Ones(key) >= 2
        /\ Len(key) = NumQubits => (maj = 1 <=> 2 * Ones(key) > Len(key))

C4_Witness ==
    /\ votePc = "returned"
    /\ key = <<"1", "1", "0", "0", "0">>
    /\ maj = 1

\* C5: majority_from_key on a key of even length fails with a configuration
\* error and returns no decoded bit.
C5_EvenLengthRejected ==
    (votePc # "call" /\ Len(key) > 0 /\ Len(key) % 2 = 0) =>
        /\ votePc = "raised"
        /\ voteErr = "ConfigurationError"
        /\ maj = -1

\* C6: a state_prep label other than zero, one, plus makes the build fail
\* (ValueError) with no circuit returned, no default state substituted, and
\* no execute call or histogram entry for that trial.
C6_InvalidStateRejected ==
    \A i \in 1..Len(states) :
        states[i] \notin ValidLabels =>
            /\ idx <= i
            /\ \A j \in 1..Len(calls) : calls[j] # states[i]
            /\ states[i] \notin DOMAIN histograms
            /\ (idx = i /\ pc # "build") =>
                  (pc = "raised" /\ error = "ValueError" /\ circ = NoCircuit)

C6_Witness ==
    /\ idx = 2
    /\ cur \notin ValidLabels
    /\ pc = "raised"
    /\ error = "ValueError"
    /\ states[1] \in DOMAIN histograms

\* C7: for every error_on outside [0, 2], negative or >= 3, the build fails
\* with an out-of-range error and no circuit is produced (nor submitted).
C7_OutOfRangeRejected ==
    ~InRange(error_on) =>
        /\ circ = NoCircuit
        /\ calls = <<>>
        /\ pc # "build" => (pc = "raised" /\ error \in {"ValueError", "CircuitError"})

\* C8: once the backend fails for a trial, run_demo has ended in failure: each
\* trial so far was submitted exactly once, the failing trial has no histogram
\* entry, nothing was plotted or printed, and no further step is taken.
BackendFailed == error = "BackendFailure"
C8_BackendFailureAborts ==
    /\ [](BackendFailed =>
            /\ pc = "raised"
            /\ calls = SubSeq(states, 1, idx)
            /\ cur \notin DOMAIN histograms
            /\ DOMAIN histograms = {states[i] : i \in 1..(idx - 1)}
            /\ ~plotted
            /\ printed = <<>>)
    /\ [][BackendFailed => UNCHANGED vars]_vars

C8_Witness ==
    /\ BackendFailed
    /\ idx = 2
    /\ simPos = Len(circ)

\* C9: every returned circuit is [prep on qubit 0], cx(0,1), cx(0,2), exactly
\* one X fault, cx(0,2), cx(0,1), then the three measurements last.
C9_FaultPlacement ==
    circ # NoCircuit =>
        LET p == Len(circ) - 8
        IN  /\ p \in {0, 1}
            /\ p = 1 => GateOf(circ[1]) \in {X(0), H(0)}
            /\ GateOf(circ[p + 1]) = CX(0, 1)
            /\ GateOf(circ[p + 2]) = CX(0, 2)
            /\ \E q \in 0..(NumQubits - 1) : GateOf(circ[p + 3]) = X(q)
            /\ GateOf(circ[p + 4]) = CX(0, 2)
            /\ GateOf(circ[p + 5]) = CX(0, 1)
            /\ \A i \in 0..(NumQubits - 1) : GateOf(circ[p + 6 + i]) = Measure(i, i)
            /\ Cardinality({i \in (p + 1)..Len(circ) : circ[i].op = "x"}) = 1

C9_Witness ==
    /\ pc = "execute"
    /\ cur = "one"
    /\ error_on = 0
    /\ Len(circ) = 9

\* C10: for basis inputs and one fault on qubit k in {0,1,2}, measured qubits 1
\* and 2 are the same for zero and for one, and measured qubit 0 equals the
\* prepared bit exactly when k # 0.
C10_SyndromeIndependence ==
    InRange(error_on) =>
        /\ \A s \in {"zero", "one"} \cap DOMAIN histograms :
              \A k \in DOMAIN histograms[s] :
                  (KeyQubit(k, 0) = LogicalBit(s)) <=> (error_on # 0)
        /\ ({"zero", "one"} \subseteq DOMAIN histograms) =>
              \A k0 \in DOMAIN histograms["zero"], k1 \in DOMAIN histograms["one"] :
                  /\ KeyQubit(k0, 1) = KeyQubit(k1, 1)
                  /\ KeyQubit(k0, 2) = KeyQubit(k1, 2)

C10_Witness ==
    /\ error_on = 0
    /\ {"zero", "one"} \subseteq DOMAIN histograms
    /\ <<"1", "1", "1">> \in DOMAIN histograms["zero"]
    /\ <<"1", "1", "0">> \in DOMAIN histograms["one"]

====
